---------------------------- MODULE Spec2Model ----------------------------
(***************************************************************************)
(* Model of the two launchers of the repository:                           *)
(*   src/bedrock-launcher.py  (the download variant, variant "download")   *)
(*   src/space-launcher.py    (the manual-ZIP variant, variant "manual")   *)
(*                                                                         *)
(* The file system is a tower of directories: level 0 is the directory     *)
(* the launcher was started in, level d+1 is <level d>/space-data.  All    *)
(* paths of the code are relative (CONFIG["data_dir"] = "space-data"), so  *)
(* with the working directory at level cwd the code's data directory is    *)
(* level cwd+1.                                                            *)
(***************************************************************************)
EXTENDS Integers, Sequences, FiniteSets, TLC

(* ------------------------------ bounds -------------------------------- *)
\* child processes spawned in one session
MaxProcs == 2
\* lines one server process writes to its pipe
MaxLines == 1
\* signals (SIGINT/SIGTERM) delivered in one session
MaxSignals == 1
\* lines of an existing server.properties
MaxFileLines == 2
\* characters of a Cloudflare token
MaxTokenLen == 9

(* ------------------------- program constants -------------------------- *)
\* len(CONFIG["mirrors"])
NumMirrors == 3
\* CONFIG["max_retries"] of the download variant
max_retries == 5
\* 50 * 1024 * 1024, the size under which a download counts as corrupt
MinArchiveSize == 52428800

Variants == {"download", "manual"}
\* CONFIG["version"] and what change_version may be given
Versions == {"1.21.44.01", "1.20.0.01"}
DefaultVersion(v) == IF v = "download" THEN "1.21.44.01" ELSE "manual"

None == "none"

VARIABLES
  variant,          \* which launcher runs
  is_codespaces,    \* self.is_codespaces
  token,            \* a Cloudflare token is configured
  zipAt,            \* manual variant: levels holding bedrock-server.zip
  zipArchive,       \* manual variant: the uploaded archive
  version,          \* CONFIG["version"]
  pc,               \* position of the main thread
  handlers,         \* the signal handlers are installed
  inHandler,        \* signal_handler is on the stack
  unwind,           \* what SystemExit meets in the interrupted frame
  signals,          \* signals delivered so far
  cwd,              \* level of the working directory
  dirAt,            \* levels whose directory exists
  serverAt,         \* <<level, version>>: bedrock_server files
  cfgAt,            \* levels holding server.properties
  worldsAt,         \* levels whose worlds/ exists and is not empty
  backupsAt,        \* levels whose backups/ holds an archive
  procs,            \* every child spawned, in spawn order
  server_process,   \* self.server_process (index into procs, 0 = None)
  tunnel_process,   \* self.tunnel_process (index into procs, 0 = None)
  running,          \* self.running
  connection_info,  \* self.connection_info["type"], or None
  tunnel_ret,       \* what setup_tunnel returned in this 'start server' action
  reinstall_log,    \* what the last reinstall_server logged, or None
  readers,          \* every log_reader thread started, in start order
  trace,            \* steps of the current 'start server' action
  runEnd,           \* {what the backup step of the current run did}
  exitStatus,       \* process exit status, or None while running
  exitCause,        \* "signal" | "menu" | None
  fin,              \* input of the function under study (function specs)
  fout              \* its result

envVars == <<variant, is_codespaces, token, zipAt, zipArchive>>
fsVars == <<cwd, dirAt, serverAt, cfgAt, worldsAt, backupsAt>>
procVars == <<procs, server_process, tunnel_process, running, readers>>
ctlVars == <<pc, handlers, inHandler, unwind, signals, exitStatus, exitCause>>
fnVars == <<fin, fout>>
infoVars == <<connection_info, tunnel_ret, reinstall_log>>
vars == <<envVars, version, fsVars, procVars, ctlVars, infoVars,
          trace, runEnd, fnVars>>

(* ============================ archives ================================= *)
\* names an archive entry can have
EntryNames == {"bedrock_server", "bedrock-server-1.21/bedrock_server",
               "bedrock_server_how_to.html", "server.properties"}

\* 'bedrock_server' in f
ContainsBedrockServer(f) ==
  f \in {"bedrock_server", "bedrock-server-1.21/bedrock_server",
         "bedrock_server_how_to.html"}

Archives == [readable: BOOLEAN, entries: SUBSET EntryNames]

\* zip_ref.extractall(data_dir) followed by server_path.exists()
ExtractsServer(a) == "bedrock_server" \in a.entries

(* ====================== install_bedrock_server ========================= *)
\* What one call of download_file meets: the requests module (missing,
\* raising, or succeeding), urllib (raising or succeeding), and the size of
\* the file a successful download leaves at zip_path.
MirrorOutcomes ==
  [requests: {"unavailable", "error", "ok"}, urllib: {"error", "ok"},
   size: {MinArchiveSize - 1, MinArchiveSize}]

\* download_file(url, destination): requests first when it is importable,
\* urllib as the fallback.  open(destination, 'wb') raises inside both try
\* blocks when the destination's directory does not exist.
download_file(o, dirOK) ==
  LET req == IF o.requests = "ok" /\ ~dirOK THEN "error" ELSE o.requests
      url == IF dirOK THEN o.urllib ELSE "error"
  IN  IF req = "ok" THEN [ok |-> TRUE, failed |-> 0]
      ELSE LET f == IF req = "error" THEN 1 ELSE 0
           IN  IF url = "ok" THEN [ok |-> TRUE, failed |-> f]
               ELSE [ok |-> FALSE, failed |-> f + 1]

\* mutant of size_ok: the size test left out
size_ok_unchecked(sz) == TRUE

\* the size test of the mirror loop: st_size < 50 * 1024 * 1024 -> continue
size_ok(sz) == ~(sz < MinArchiveSize)

\* mutant of mirror_loop: a too-small archive of the last mirror is kept
\* (the loop written without its else branch)
RECURSIVE mirror_loop_no_else(_, _, _)
mirror_loop_no_else(i, outs, dirOK) ==
  IF i > NumMirrors
  THEN [broke |-> FALSE, contacted |-> <<>>, failed |-> 0, small |-> 0]
  ELSE LET d == download_file(outs[i], dirOK)
       IN  IF d.ok /\ (size_ok(outs[i].size) \/ i = NumMirrors)
           THEN [broke |-> TRUE, contacted |-> <<i>>, failed |-> d.failed,
                 small |-> 0]
           ELSE LET rest == mirror_loop_no_else(i + 1, outs, dirOK)
                IN  [broke |-> rest.broke,
                     contacted |-> <<i>> \o rest.contacted,
                     failed |-> d.failed + rest.failed,
                     small |-> rest.small + IF d.ok THEN 1 ELSE 0]

\* for i, mirror in enumerate(CONFIG["mirrors"]): ... else: ...
\* broke: the loop left by break; contacted: the mirrors asked, in order;
\* failed: download attempts (requests or urllib) that raised; small:
\* downloads dropped as too small.
RECURSIVE mirror_loop(_, _, _)
mirror_loop(i, outs, dirOK) ==
  IF i > NumMirrors
  THEN [broke |-> FALSE, contacted |-> <<>>, failed |-> 0, small |-> 0]
  ELSE LET d == download_file(outs[i], dirOK)
       IN  IF d.ok /\ size_ok(outs[i].size)
           THEN [broke |-> TRUE, contacted |-> <<i>>, failed |-> d.failed,
                 small |-> 0]
           ELSE LET rest == mirror_loop(i + 1, outs, dirOK)
                IN  [broke |-> rest.broke,
                     contacted |-> <<i>> \o rest.contacted,
                     failed |-> d.failed + rest.failed,
                     small |-> rest.small + IF d.ok THEN 1 ELSE 0]

\* The result of an install call.  result: the return value; contacted and
\* failed: as in mirror_loop, the too-small downloads counted as well;
\* extracted: extractall ran on the archive;
\* created: extraction left <data_dir>/bedrock_server; reported: "Fallo la
\* descarga desde todos los mirrors" was logged.
InstallResult(res, con, fl, ext, cre, rep) ==
  [result |-> res, contacted |-> con, failed |-> fl,
   extracted |-> ext, created |-> cre, reported |-> rep]

\* extraction: ZipFile(zip_path) raises on an unreadable archive before
\* anything is extracted; extractall may raise (ioOK = FALSE); the server
\* counts as installed when server_path exists afterwards.
extract_server(a, ioOK, con, fl) ==
  IF ~a.readable
  THEN InstallResult(FALSE, con, fl, FALSE, FALSE, FALSE)
  ELSE IF ~ioOK
  THEN InstallResult(FALSE, con, fl, TRUE, FALSE, FALSE)
  ELSE InstallResult(ExtractsServer(a), con, fl, TRUE,
                     ExtractsServer(a), FALSE)

\* install_bedrock_server of the download variant
install_download(installed, dirOK, outs, a, ioOK) ==
  IF installed
  THEN InstallResult(TRUE, <<>>, 0, FALSE, FALSE, FALSE)
  ELSE LET l == mirror_loop(1, outs, dirOK)
       IN  IF ~l.broke
           THEN InstallResult(FALSE, l.contacted, l.failed + l.small, FALSE,
                              FALSE, TRUE)
           ELSE extract_server(a, ioOK, l.contacted, l.failed + l.small)

\* validate_bedrock_zip(zip_path): a readable zip one of whose entry names
\* contains 'bedrock_server'
validate_bedrock_zip(a) ==
  a.readable /\ \E f \in a.entries : ContainsBedrockServer(f)

\* install_bedrock_server of the manual variant; zips is what find_manual_zip
\* returned: {} for None, else {the archive found}
install_manual(installed, zips, ioOK) ==
  IF installed
  THEN InstallResult(TRUE, <<>>, 0, FALSE, FALSE, FALSE)
  ELSE IF zips = {}
  THEN InstallResult(FALSE, <<>>, 0, FALSE, FALSE, FALSE)
  ELSE LET zip == CHOOSE z \in zips : TRUE
       IN  IF ~validate_bedrock_zip(zip)
           THEN InstallResult(FALSE, <<>>, 0, FALSE, FALSE, FALSE)
           ELSE extract_server(zip, ioOK, <<>>, 0)

(* ========================= the session state =========================== *)
HasServer(d) == \E s \in serverAt : s[1] = d
\* Path(CONFIG["data_dir"]) seen from the working directory
DataLevel == cwd + 1

\* find_manual_zip as the session sees it: {the uploaded archive} when a ZIP
\* lies in the working directory or in the data directory, else {} (None)
find_manual_zip(c) ==
  IF c \in zipAt \/ (c + 1) \in zipAt THEN {zipArchive} ELSE {}

\* archives of the download mirrors and of a manual upload in a session
DownloadArchives ==
  {a \in Archives : a.entries \subseteq {"bedrock_server", "server.properties"}}
SessionArchives ==
  {[readable |-> TRUE, entries |-> {"bedrock_server", "server.properties"}],
   [readable |-> TRUE, entries |-> {"bedrock-server-1.21/bedrock_server"}],
   [readable |-> FALSE, entries |-> {}]}

\* what install_bedrock_server of the download variant can do to a session
DownloadOutcomes ==
  {LET r == install_download(inst, dirOK, o, a, io)
   IN  <<inst, dirOK, r.result, r.extracted, r.created>> :
     inst \in BOOLEAN, dirOK \in BOOLEAN,
     o \in [1..NumMirrors -> MirrorOutcomes], a \in DownloadArchives,
     io \in BOOLEAN}

\* a child just spawned by subprocess.Popen with working directory d
NewProc(kind, d) ==
  [kind |-> kind, alive |-> TRUE, sigs |-> <<>>, dir |-> d,
   written |-> 0, consumed |-> 0]

ctlRest == <<handlers, inHandler, unwind, signals, exitStatus, exitCause>>

Init ==
  /\ variant \in Variants
  /\ is_codespaces \in BOOLEAN
  /\ token \in BOOLEAN
  /\ \E pre \in BOOLEAN :
        /\ serverAt = IF pre THEN {<<1, DefaultVersion(variant)>>} ELSE {}
        /\ cfgAt = IF pre THEN {1} ELSE {}
        /\ worldsAt \in IF pre THEN {{}, {1}} ELSE {{}}
        /\ IF variant = "manual"
           THEN /\ zipAt \in {{}, {0}, {1}}
                /\ zipArchive \in SessionArchives
           ELSE /\ zipAt = {}
                /\ zipArchive = [readable |-> FALSE, entries |-> {}]
        /\ dirAt = IF pre \/ 1 \in zipAt THEN {0, 1} ELSE {0}
  /\ version = DefaultVersion(variant)
  /\ pc = "init"
  /\ handlers = FALSE
  /\ inHandler = FALSE
  /\ unwind = None
  /\ signals = 0
  /\ cwd = 0
  /\ backupsAt = {}
  /\ procs = <<>>
  /\ server_process = 0
  /\ tunnel_process = 0
  /\ running = FALSE
  /\ connection_info = None
  /\ tunnel_ret = None
  /\ reinstall_log = None
  /\ readers = <<>>
  /\ trace = <<>>
  /\ runEnd = {}
  /\ exitStatus = None
  /\ exitCause = None
  /\ fin = None
  /\ fout = None

(* ------------------------- run_interactive ---------------------------- *)
setup_signal_handlers ==
  /\ pc = "init"
  /\ handlers' = TRUE
  /\ pc' = "env"
  /\ UNCHANGED <<envVars, version, fsVars, procVars, inHandler, unwind,
                 signals, exitStatus, exitCause, infoVars, trace,
                 runEnd, fnVars>>

\* setup_environment: data_path.mkdir(exist_ok=True) ...
setup_environment_mkdir ==
  /\ pc = "env"
  /\ dirAt' = dirAt \cup {DataLevel}
  /\ pc' = "env_try"
  /\ UNCHANGED <<envVars, version, cwd, serverAt, cfgAt, worldsAt, backupsAt,
                 procVars, handlers, inHandler, unwind, signals, exitStatus,
                 exitCause, infoVars, trace, runEnd, fnVars>>

\* ... then the disk-space check inside try / bare except
setup_environment_disk ==
  /\ pc = "env_try"
  /\ pc' = "menu"
  /\ UNCHANGED <<envVars, version, fsVars, procVars, handlers, inHandler,
                 unwind, signals, exitStatus, exitCause, infoVars,
                 trace, runEnd, fnVars>>

\* choice "1", first step: install_bedrock_server; on failure the prompt
\* "Error instalando servidor. Presione Enter..." and back to the menu
\* mutant of InstallEffect: the failed install is not followed by continue
InstallEffect_no_continue(res, ext, cre) ==
  /\ serverAt' = IF cre THEN serverAt \cup {<<DataLevel, version>>}
                 ELSE serverAt
  /\ dirAt' = IF ext THEN dirAt \cup {DataLevel} ELSE dirAt
  /\ trace' = <<IF res THEN "install_ok" ELSE "install_failed">>
  /\ pc' = "configure"

InstallEffect(res, ext, cre) ==
  /\ serverAt' = IF cre THEN serverAt \cup {<<DataLevel, version>>}
                 ELSE serverAt
  /\ dirAt' = IF ext THEN dirAt \cup {DataLevel} ELSE dirAt
  /\ trace' = <<IF res THEN "install_ok" ELSE "install_failed">>
  /\ pc' = IF res THEN "configure" ELSE "install_error"

choice_start_install ==
  /\ pc = "menu"
  /\ IF variant = "download"
     THEN \E t \in DownloadOutcomes :
            /\ t[1] = HasServer(DataLevel)
            /\ t[2] = (DataLevel \in dirAt)
            /\ InstallEffect(t[3], t[4], t[5])
     ELSE \E io \in BOOLEAN :
            LET r == install_manual(HasServer(DataLevel),
                                    find_manual_zip(cwd), io)
            IN  InstallEffect(r.result, r.extracted, r.created)
  /\ reinstall_log' = None
  /\ UNCHANGED <<envVars, version, cwd, cfgAt, worldsAt, backupsAt, procVars,
                 handlers, inHandler, unwind, signals, exitStatus, exitCause,
                 connection_info, tunnel_ret, runEnd, fnVars>>

\* input("\nError instalando servidor. Presione Enter..."); continue
install_error_continue ==
  /\ pc = "install_error"
  /\ pc' = "menu"
  /\ trace' = <<>>
  /\ UNCHANGED <<envVars, version, fsVars, procVars, ctlRest,
                 infoVars, runEnd, fnVars>>

\* configure_server (the manual variant runs install_dependencies first and
\* creates worlds/<world_name> with its essential files)
configure_server_step ==
  /\ pc = "configure"
  /\ cfgAt' = cfgAt \cup {DataLevel}
  /\ worldsAt' = IF variant = "manual" THEN worldsAt \cup {DataLevel}
                 ELSE worldsAt
  /\ dirAt' = dirAt \cup {DataLevel}
  /\ trace' = Append(trace, "configure")
  /\ pc' = "tunnel"
  /\ UNCHANGED <<envVars, version, cwd, serverAt, backupsAt, procVars,
                 handlers, inHandler, unwind, signals, exitStatus, exitCause,
                 infoVars, runEnd, fnVars>>

(* --------------------------- setup_tunnel ------------------------------ *)
\* setup_cloudflared, called from the 'start server' action (ret = "start")
\* or from menu choice "3" (ret = "menu").  It returns False without a child
\* when the binary cannot be had, the token is missing or Popen raises; else
\* it spawns the tunnel, sleeps and polls it.  The download variant then
\* asks 'cloudflared access tcp' for the address inside try / bare except.
setup_cloudflared(ret) ==
  \/ /\ pc' = ret
     /\ tunnel_ret' = IF ret = "start" THEN "False" ELSE tunnel_ret
     /\ UNCHANGED <<procs, tunnel_process, connection_info>>
  \/ /\ token
     /\ Len(procs) < MaxProcs
     /\ variant = "download" => DataLevel \in dirAt
     /\ \E dies \in BOOLEAN :
          /\ procs' = Append(procs, [NewProc("tunnel", cwd)
                                       EXCEPT !.alive = ~dies])
          /\ tunnel_process' = Len(procs) + 1
          /\ IF dies
             THEN /\ pc' = ret
                  /\ tunnel_ret' = IF ret = "start" THEN "False"
                                   ELSE tunnel_ret
                  /\ UNCHANGED connection_info
             ELSE IF variant = "download"
             THEN /\ pc' = IF ret = "start" THEN "access_a" ELSE "access_m"
                  /\ UNCHANGED <<connection_info, tunnel_ret>>
             ELSE /\ pc' = ret
                  /\ tunnel_ret' = IF ret = "start" THEN "True"
                                   ELSE tunnel_ret
                  /\ connection_info' = "cloudflare"

\* mutant of setup_tunnel_step: without a tunnel the action goes to cleanup
setup_tunnel_step_required ==
  /\ pc = "tunnel"
  /\ IF is_codespaces
     THEN /\ connection_info' = "codespaces"
          /\ tunnel_ret' = "True"
          /\ pc' = "start"
          /\ UNCHANGED <<procs, tunnel_process>>
     ELSE /\ tunnel_ret' = "False"
          /\ pc' = "cl_server"
          /\ UNCHANGED <<procs, tunnel_process, connection_info>>
  /\ trace' = Append(trace, "tunnel")
  /\ UNCHANGED <<reinstall_log, envVars, version, fsVars, server_process,
                 running, readers, ctlRest, runEnd, fnVars>>

\* setup_tunnel, and "Continuando sin tunel..." when it returns False
setup_tunnel_step ==
  /\ pc = "tunnel"
  /\ IF is_codespaces
     THEN /\ connection_info' = "codespaces"
          /\ tunnel_ret' = "True"
          /\ pc' = "start"
          /\ UNCHANGED <<procs, tunnel_process>>
     ELSE setup_cloudflared("start")
  /\ trace' = Append(trace, "tunnel")
  /\ UNCHANGED <<reinstall_log, envVars, version, fsVars, server_process, running, readers,
                 ctlRest, runEnd, fnVars>>

\* choice "3"
choice_tunnel ==
  /\ pc = "menu"
  /\ IF is_codespaces
     THEN UNCHANGED <<pc, procs, tunnel_process, connection_info, tunnel_ret>>
     ELSE setup_cloudflared("menu")
  /\ UNCHANGED <<reinstall_log, envVars, version, fsVars, server_process, running, readers,
                 ctlRest, trace, runEnd, fnVars>>

\* subprocess.run([cloudflared, "access", "tcp", ...]) of the download
\* variant: connection_info is set when the output holds an https:// line
\* or when the call raises
cloudflared_access ==
  /\ pc \in {"access_a", "access_m"}
  /\ \E set \in BOOLEAN :
       connection_info' = IF set THEN "cloudflare" ELSE connection_info
  /\ tunnel_ret' = IF pc = "access_a" THEN "True" ELSE tunnel_ret
  /\ pc' = IF pc = "access_a" THEN "start" ELSE "menu"
  /\ UNCHANGED <<reinstall_log, envVars, version, fsVars, procVars, ctlRest, trace, runEnd,
                 fnVars>>

(* --------------------------- start_server ------------------------------ *)
\* start_server up to the wait: the existence check, the manual variant's
\* port check, os.chdir(CONFIG["data_dir"]), running = True, Popen and the
\* start of the log_reader thread
\* mutant of is_port_checked: the port check in both variants
is_port_checked_always(v) == TRUE

\* whether start_server of variant v asks is_port_in_use before the chdir
is_port_checked(v) == v = "manual"

\* start_server of variant v
start_server_step_of(v) ==
  /\ pc = "start"
  /\ IF ~HasServer(DataLevel)
     THEN /\ pc' = "cl_server"
          /\ UNCHANGED <<cwd, procVars, trace>>
     ELSE \/ /\ is_port_checked(v)
             /\ pc' = "cl_server"
             /\ trace' = Append(trace, "port_in_use")
             /\ UNCHANGED <<cwd, procVars>>
          \/ /\ Len(procs) < MaxProcs
             /\ cwd' = cwd + 1
             /\ running' = TRUE
             /\ procs' = Append(procs, NewProc("server", cwd + 1))
             /\ server_process' = Len(procs) + 1
             /\ readers' = Append(readers, [proc |-> Len(procs) + 1,
                                            pc |-> "check", on |-> 0])
             /\ trace' = Append(trace, "spawn")
             /\ pc' = "serving"
             /\ UNCHANGED tunnel_process
          \/ /\ cwd' = cwd + 1
             /\ running' = TRUE
             /\ trace' = Append(trace, "spawn_failed")
             /\ pc' = "finally"
             /\ UNCHANGED <<procs, server_process, tunnel_process, readers>>
  /\ UNCHANGED <<envVars, version, dirAt, serverAt, cfgAt, worldsAt,
                 backupsAt, ctlRest, infoVars, runEnd, fnVars>>

start_server_step == start_server_step_of(variant)

\* self.server_process.wait() returns
server_wait ==
  /\ pc = "serving"
  /\ ~procs[server_process].alive
  /\ pc' = "finally"
  /\ UNCHANGED <<envVars, version, fsVars, procVars, ctlRest,
                 infoVars, trace, runEnd, fnVars>>

\* generate_world_backup: worlds/ is looked up under the data directory as
\* seen from the working directory; io = FALSE is an error caught while the
\* archive is written
generate_world_backup(io) ==
  backupsAt' = IF DataLevel \in worldsAt /\ io
               THEN backupsAt \cup {DataLevel} ELSE backupsAt

\* what the end of a server run did: ran is the level the server ran in
RunEnd(started, io) ==
  [started |-> started, ran |-> cwd, worlds |-> cwd \in worldsAt, io |-> io,
   backup |-> IF DataLevel \in worldsAt /\ io THEN DataLevel ELSE -1,
   stopped |-> server_process # 0 /\
               (~procs[server_process].alive \/
                Len(procs[server_process].sigs) > 0)]

\* the finally block of start_server: running = False, backup
start_server_finally ==
  /\ pc = "finally"
  /\ running' = FALSE
  /\ \E io \in BOOLEAN :
       /\ generate_world_backup(io)
       /\ runEnd' = {RunEnd(trace[Len(trace)] = "spawn", io)}
  /\ pc' = "cl_server"
  /\ UNCHANGED <<envVars, version, cwd, dirAt, serverAt, cfgAt, worldsAt,
                 procs, server_process, tunnel_process, readers, ctlRest,
                 infoVars, trace, fnVars>>

(* ------------------------------ cleanup -------------------------------- *)
Alive(p) == p # 0 /\ procs[p].alive
SendSignal(p, sig) == [procs EXCEPT ![p].sigs = Append(@, sig)]
Kill(p) == [procs EXCEPT ![p].sigs = Append(@, "KILL"), ![p].alive = FALSE]
\* where cleanup() returns to: the menu loop, or sys.exit(0) of the handler
AfterCleanup == IF inHandler THEN "sys_exit" ELSE "menu"

\* cleanup(): running = False; if the server is set and has not exited,
\* terminate() it and wait up to 15 s
cleanup_server ==
  /\ pc = "cl_server"
  /\ running' = FALSE
  /\ IF Alive(server_process)
     THEN /\ procs' = SendSignal(server_process, "TERM")
          /\ pc' = "cl_server_wait"
     ELSE /\ pc' = "cl_tunnel"
          /\ UNCHANGED procs
  /\ trace' = IF inHandler THEN trace ELSE Append(trace, "cleanup")
  /\ UNCHANGED <<envVars, version, fsVars, server_process, tunnel_process,
                 readers, ctlRest, infoVars, runEnd, fnVars>>

\* mutant of cleanup_server_wait: kill() whether or not the wait timed out
cleanup_server_wait_always_kills ==
  /\ pc = "cl_server_wait"
  /\ procs' = Kill(server_process)
  /\ pc' = "cl_tunnel"
  /\ UNCHANGED <<envVars, version, fsVars, server_process, tunnel_process,
                 running, readers, ctlRest, infoVars, trace, runEnd,
                 fnVars>>

\* wait(timeout=15) returns, or TimeoutExpired and kill()
cleanup_server_wait ==
  /\ pc = "cl_server_wait"
  /\ procs' = IF Alive(server_process) THEN Kill(server_process) ELSE procs
  /\ pc' = "cl_tunnel"
  /\ UNCHANGED <<envVars, version, fsVars, server_process, tunnel_process,
                 running, readers, ctlRest, infoVars, trace, runEnd,
                 fnVars>>

\* mutant of cleanup_tunnel: cleanup() without its tunnel part
cleanup_tunnel_skipped ==
  /\ pc = "cl_tunnel"
  /\ pc' = "cl_return"
  /\ UNCHANGED <<envVars, version, fsVars, procVars, ctlRest, infoVars,
                 trace, runEnd, fnVars>>

\* the same for the tunnel, with wait(timeout=5)
cleanup_tunnel ==
  /\ pc = "cl_tunnel"
  /\ IF Alive(tunnel_process)
     THEN /\ procs' = SendSignal(tunnel_process, "TERM")
          /\ pc' = "cl_tunnel_wait"
     ELSE /\ pc' = "cl_return"
          /\ UNCHANGED procs
  /\ UNCHANGED <<envVars, version, fsVars, server_process, tunnel_process,
                 running, readers, ctlRest, infoVars, trace, runEnd,
                 fnVars>>

cleanup_tunnel_wait ==
  /\ pc = "cl_tunnel_wait"
  /\ procs' = IF Alive(tunnel_process) THEN Kill(tunnel_process) ELSE procs
  /\ pc' = "cl_return"
  /\ UNCHANGED <<envVars, version, fsVars, server_process, tunnel_process,
                 running, readers, ctlRest, infoVars, trace, runEnd,
                 fnVars>>

\* cleanup() returns: to the menu loop (the 'start server' action is over),
\* or to the handler's sys.exit(0)
cleanup_return ==
  /\ pc = "cl_return"
  /\ pc' = AfterCleanup
  /\ trace' = IF inHandler THEN trace ELSE <<>>
  /\ runEnd' = IF inHandler THEN runEnd ELSE {}
  /\ tunnel_ret' = IF inHandler THEN tunnel_ret ELSE None
  /\ UNCHANGED <<envVars, version, fsVars, procVars, ctlRest,
                 connection_info, reinstall_log, fnVars>>

(* --------------------------- signal_handler ---------------------------- *)
\* What the SystemExit raised by the handler's sys.exit(0) meets in the frame
\* the signal interrupted: the finally block of start_server, a bare except
\* (setup_environment's disk check, the download variant's access call), or
\* nothing.
UnwindOf(at) ==
  IF at \in {"serving", "finally"} THEN "finally"
  ELSE IF at \in {"env_try", "access_a", "access_m"} THEN at
  ELSE "exit"

\* SIGINT or SIGTERM is delivered: signal_handler starts cleanup().  A signal
\* that arrives while the handler runs starts a nested handler, whose
\* sys.exit(0) unwinds the outer one as well.
signal_handler ==
  /\ handlers
  /\ pc # "exited"
  /\ signals < MaxSignals
  /\ signals' = signals + 1
  /\ unwind' = IF inHandler THEN unwind ELSE UnwindOf(pc)
  /\ inHandler' = TRUE
  /\ pc' = "cl_server"
  /\ UNCHANGED <<envVars, version, fsVars, procVars, handlers, exitStatus,
                 exitCause, infoVars, trace, runEnd, fnVars>>

\* sys.exit(0) with nothing in the way
sys_exit ==
  /\ pc = "sys_exit"
  /\ unwind = "exit"
  /\ pc' = "exited"
  /\ exitStatus' = 0
  /\ exitCause' = "signal"
  /\ UNCHANGED <<envVars, version, fsVars, procVars, handlers, inHandler,
                 unwind, signals, infoVars, trace, runEnd, fnVars>>

\* sys.exit(0) unwinding through the finally block of start_server
sys_exit_finally ==
  /\ pc = "sys_exit"
  /\ unwind = "finally"
  /\ running' = FALSE
  /\ \E io \in BOOLEAN :
       /\ generate_world_backup(io)
       /\ runEnd' = {RunEnd(trace[Len(trace)] = "spawn", io)}
  /\ pc' = "exited"
  /\ exitStatus' = 0
  /\ exitCause' = "signal"
  /\ UNCHANGED <<envVars, version, cwd, dirAt, serverAt, cfgAt, worldsAt,
                 procs, server_process, tunnel_process, readers, handlers,
                 inHandler, unwind, signals, infoVars, trace, fnVars>>

\* SystemExit caught by a bare except: the launcher goes on
sys_exit_swallowed ==
  /\ pc = "sys_exit"
  /\ unwind \in {"env_try", "access_a", "access_m"}
  /\ pc' = IF unwind = "access_a" THEN "start" ELSE "menu"
  /\ connection_info' = IF unwind = "env_try" THEN connection_info
                        ELSE "cloudflare"
  /\ tunnel_ret' = IF unwind = "access_a" THEN "True" ELSE tunnel_ret
  /\ UNCHANGED reinstall_log
  /\ inHandler' = FALSE
  /\ unwind' = None
  /\ UNCHANGED <<envVars, version, fsVars, procVars, handlers, signals,
                 exitStatus, exitCause, trace, runEnd, fnVars>>

(* --------------------------- other choices ----------------------------- *)
\* choice "2" of the download variant: change_version
change_version ==
  /\ pc = "menu"
  /\ variant = "download"
  /\ \E new_version \in Versions \cup {""} :
       version' = IF new_version # "" THEN new_version ELSE version
  /\ UNCHANGED <<envVars, fsVars, procVars, ctlVars, infoVars, trace,
                 runEnd, fnVars>>

\* choice "5": generate_world_backup
choice_backup ==
  /\ pc = "menu"
  /\ \E io \in BOOLEAN : generate_world_backup(io)
  /\ UNCHANGED <<envVars, version, cwd, dirAt, serverAt, cfgAt, worldsAt,
                 procVars, ctlVars, infoVars, trace, runEnd, fnVars>>

\* choice "6" of the manual variant: reinstall_server removes bedrock_server
\* of the data directory as seen from the working directory and, when the
\* user answers y, server.properties; without a bedrock_server there it logs
\* "No hay servidor instalado" and removes nothing
reinstall_server ==
  /\ pc = "menu"
  /\ variant = "manual"
  /\ IF HasServer(DataLevel)
     THEN /\ serverAt' = {x \in serverAt : x[1] # DataLevel}
          /\ \E y \in BOOLEAN :
               cfgAt' = IF y THEN cfgAt \ {DataLevel} ELSE cfgAt
          /\ reinstall_log' = "removed"
     ELSE /\ reinstall_log' = "not_installed"
          /\ UNCHANGED <<serverAt, cfgAt>>
  /\ UNCHANGED <<envVars, version, cwd, dirAt, worldsAt, backupsAt, procVars,
                 ctlVars, connection_info, tunnel_ret, trace, runEnd, fnVars>>

\* choice "6" (download) or "7" (manual): sys.exit(0) from the menu
choice_exit ==
  /\ pc = "menu"
  /\ pc' = "exited"
  /\ exitStatus' = 0
  /\ exitCause' = "menu"
  /\ UNCHANGED <<envVars, version, fsVars, procVars, handlers, inHandler,
                 unwind, signals, infoVars, trace, runEnd, fnVars>>

(* ------------------------------ children ------------------------------- *)
\* a child exits, by itself or after a signal
child_exit(p) ==
  /\ pc # "exited"
  /\ procs[p].alive
  /\ procs' = [procs EXCEPT ![p].alive = FALSE]
  /\ UNCHANGED <<envVars, version, fsVars, server_process, tunnel_process,
                 running, readers, ctlVars, infoVars, trace, runEnd,
                 fnVars>>

\* the server writes a line to its stdout pipe
server_write(p) ==
  /\ pc # "exited"
  /\ procs[p].kind = "server"
  /\ procs[p].alive
  /\ procs[p].written < MaxLines
  /\ procs' = [procs EXCEPT ![p].written = @ + 1]
  /\ UNCHANGED <<envVars, version, fsVars, server_process, tunnel_process,
                 running, readers, ctlVars, infoVars, trace, runEnd,
                 fnVars>>

\* the server saves its world under worlds/ of its working directory
server_saves_world(p) ==
  /\ pc # "exited"
  /\ procs[p].kind = "server"
  /\ procs[p].alive
  /\ procs[p].dir \notin worldsAt
  /\ worldsAt' = worldsAt \cup {procs[p].dir}
  /\ UNCHANGED <<envVars, version, cwd, dirAt, serverAt, cfgAt, backupsAt,
                 procVars, ctlVars, infoVars, trace, runEnd, fnVars>>

(* ------------------------------ log_reader ----------------------------- *)
\* while self.running and self.server_process.poll() is None: the thread
\* reads self.running and self.server_process as they are now
log_reader_check(r) ==
  /\ pc # "exited"
  /\ readers[r].pc = "check"
  /\ readers' = IF running /\ Alive(server_process)
                THEN [readers EXCEPT ![r].pc = "read",
                                     ![r].on = server_process]
                ELSE [readers EXCEPT ![r].pc = "done"]
  /\ UNCHANGED <<envVars, version, fsVars, procs, server_process,
                 tunnel_process, running, ctlVars, infoVars, trace,
                 runEnd, fnVars>>

\* line = stdout.readline(): a line is read and printed, or the pipe is at
\* end of file (the child exited and everything was read) and '' returns
log_reader_read(r) ==
  /\ pc # "exited"
  /\ readers[r].pc = "read"
  /\ LET p == readers[r].on
     IN  \/ /\ procs[p].consumed < procs[p].written
            /\ procs' = [procs EXCEPT ![p].consumed = @ + 1]
         \/ /\ procs[p].consumed = procs[p].written
            /\ ~procs[p].alive
            /\ UNCHANGED procs
  /\ readers' = [readers EXCEPT ![r].pc = "check"]
  /\ UNCHANGED <<envVars, version, fsVars, server_process, tunnel_process,
                 running, ctlVars, infoVars, trace, runEnd, fnVars>>

(* ---------------------------- specification ---------------------------- *)
\* the 'start server' action of the menu, step by step
StartAction ==
  \/ choice_start_install
  \/ install_error_continue
  \/ configure_server_step
  \/ setup_tunnel_step
  \/ start_server_step
  \/ server_wait
  \/ start_server_finally
  \/ cleanup_server
  \/ cleanup_server_wait
  \/ cleanup_tunnel
  \/ cleanup_tunnel_wait
  \/ cleanup_return

\* The launcher's main thread with its children and the signals.  The
\* log_reader threads are started but their steps are left to SpecLog: they
\* write nothing the main thread reads.
Next ==
  \/ setup_signal_handlers
  \/ setup_environment_mkdir
  \/ setup_environment_disk
  \/ StartAction
  \/ choice_tunnel
  \/ cloudflared_access
  \/ signal_handler
  \/ sys_exit
  \/ sys_exit_finally
  \/ sys_exit_swallowed
  \/ change_version
  \/ choice_backup
  \/ reinstall_server
  \/ choice_exit
  \/ \E p \in 1..Len(procs) : child_exit(p) \/ server_saves_world(p)

Spec == Init /\ [][Next]_vars

\* The server's output and the log_reader threads, over sessions without a
\* tunnel and without signals: the main thread's 'start server' action (whose
\* cleanup then finds no child to wait for), the server writing and exiting,
\* and the reader threads.
InitLog == Init /\ ~token /\ ~is_codespaces

NextLog ==
  \/ setup_signal_handlers
  \/ setup_environment_mkdir
  \/ setup_environment_disk
  \/ choice_start_install
  \/ install_error_continue
  \/ configure_server_step
  \/ setup_tunnel_step
  \/ start_server_step
  \/ server_wait
  \/ start_server_finally
  \/ cleanup_server
  \/ cleanup_tunnel
  \/ cleanup_return
  \/ choice_exit
  \/ \E p \in 1..Len(procs) : child_exit(p) \/ server_write(p)
  \/ \E r \in 1..Len(readers) : log_reader_check(r) \/ log_reader_read(r)

SpecLog == InitLog /\ [][NextLog]_vars

(* ============ install_bedrock_server as a function of its inputs ======= *)
\* the session variables while a single function is studied
Idle ==
  /\ variant = "download"
  /\ is_codespaces = FALSE
  /\ token = FALSE
  /\ zipAt = {}
  /\ zipArchive = [readable |-> FALSE, entries |-> {}]
  /\ version = DefaultVersion("download")
  /\ pc = "idle"
  /\ handlers = FALSE
  /\ inHandler = FALSE
  /\ unwind = None
  /\ signals = 0
  /\ cwd = 0
  /\ dirAt = {0}
  /\ serverAt = {}
  /\ cfgAt = {}
  /\ worldsAt = {}
  /\ backupsAt = {}
  /\ procs = <<>>
  /\ server_process = 0
  /\ tunnel_process = 0
  /\ running = FALSE
  /\ connection_info = None
  /\ tunnel_ret = None
  /\ reinstall_log = None
  /\ readers = <<>>
  /\ trace = <<>>
  /\ runEnd = {}
  /\ exitStatus = None
  /\ exitCause = None

sessionVars == <<envVars, version, fsVars, procVars, ctlVars,
                 infoVars, trace, runEnd>>

NoMirrors == [i \in 1..NumMirrors |->
                [requests |-> "unavailable", urllib |-> "error",
                 size |-> MinArchiveSize]]

\* the inputs of one install call: the variant, whether bedrock_server is
\* there already, whether the data directory exists, what each mirror does,
\* the archive (download: the one the mirrors serve; manual: zips is the
\* result of find_manual_zip), and whether extractall meets an I/O error
InstallInputs ==
  [variant : {"download"}, installed : BOOLEAN, dirOK : BOOLEAN,
   outs : [1..NumMirrors -> MirrorOutcomes],
   zips : {{a} : a \in DownloadArchives}, io : BOOLEAN]
  \cup
  [variant : {"manual"}, installed : BOOLEAN, dirOK : {TRUE},
   outs : {NoMirrors}, zips : {{}} \cup {{a} : a \in Archives},
   io : BOOLEAN]

InitInstall ==
  /\ Idle
  /\ fin \in InstallInputs
  /\ fout = {}

call_install_download ==
  /\ fout = {}
  /\ fin.variant = "download"
  /\ fout' = {install_download(fin.installed, fin.dirOK, fin.outs,
                               CHOOSE a \in fin.zips : TRUE, fin.io)}
  /\ UNCHANGED <<sessionVars, fin>>

call_install_manual ==
  /\ fout = {}
  /\ fin.variant = "manual"
  /\ fout' = {install_manual(fin.installed, fin.zips, fin.io)}
  /\ UNCHANGED <<sessionVars, fin>>

NextInstall == call_install_download \/ call_install_manual

SpecInstall == InitInstall /\ [][NextInstall]_vars

(* ====================== configure_server, the file ===================== *)
\* A line of server.properties is a sequence of tokens: a word (a key or a
\* value word), "=", "#" or " " (white space; the newline that ends the line
\* is white space that strip() removes as well).
IsSpace(t) == t = " "

RECURSIVE lstrip(_)
lstrip(l) == IF l # <<>> /\ IsSpace(Head(l)) THEN lstrip(Tail(l)) ELSE l

RECURSIVE rstrip(_)
rstrip(l) ==
  IF l # <<>> /\ IsSpace(l[Len(l)]) THEN rstrip(SubSeq(l, 1, Len(l) - 1))
  ELSE l

\* str.strip()
strip(l) == rstrip(lstrip(l))

\* '=' in line
HasEq(l) == \E i \in 1..Len(l) : l[i] = "="

\* mutant of split_eq: the line split at its last '=' (rsplit)
split_eq_last(l) ==
  LET i == CHOOSE j \in 1..Len(l) :
             l[j] = "=" /\ \A h \in (j + 1)..Len(l) : l[h] # "="
  IN  <<SubSeq(l, 1, i - 1), SubSeq(l, i + 1, Len(l))>>

\* str.split('=', 1): <<before the first '=', after it>>
split_eq(l) ==
  LET i == CHOOSE j \in 1..Len(l) :
             l[j] = "=" /\ \A h \in 1..(j - 1) : l[h] # "="
  IN  <<SubSeq(l, 1, i - 1), SubSeq(l, i + 1, Len(l))>>

\* the condition under which a line of the existing file is parsed: the
\* manual variant skips the lines whose stripped text starts with '#'
line_parsed(v, l) ==
  /\ HasEq(l)
  /\ v = "manual" => ~(strip(l) # <<>> /\ Head(strip(l)) = "#")

\* existing_config after the lines from i on are read into d
RECURSIVE read_existing(_, _, _, _)
read_existing(v, lines, i, d) ==
  IF i > Len(lines) THEN d
  ELSE IF ~line_parsed(v, lines[i]) THEN read_existing(v, lines, i + 1, d)
  ELSE LET kv == split_eq(strip(lines[i]))
       IN  read_existing(v, lines, i + 1,
             [k \in DOMAIN d \cup {kv[1]} |->
                IF k = kv[1] THEN kv[2] ELSE d[k]])

\* the server_config dictionary of each variant, in insertion order
server_config(v) ==
  IF v = "download"
  THEN << <<"server-name", <<"Space Bedrock Server">> >>,
          <<"gamemode", <<"survival">> >>,
          <<"difficulty", <<"normal">> >>,
          <<"allow-cheats", <<"false">> >>,
          <<"max-players", <<"10">> >>,
          <<"online-mode", <<"true">> >>,
          <<"server-port", <<"19132">> >>,
          <<"level-name", <<"Space-World">> >>,
          <<"default-player-permission-level", <<"member">> >>,
          <<"player-idle-timeout", <<"30">> >>,
          <<"view-distance", <<"12">> >>,
          <<"max-threads", <<"0">> >>,
          <<"server-authoritative-movement", <<"server-auth">> >>,
          <<"compression-threshold", <<"1">> >> >>
  ELSE << <<"server-name", <<"Space Bedrock Server">> >>,
          <<"gamemode", <<"survival">> >>,
          <<"difficulty", <<"normal">> >>,
          <<"allow-cheats", <<"false">> >>,
          <<"max-players", <<"10">> >>,
          <<"online-mode", <<"true">> >>,
          <<"server-port", <<"19132">> >>,
          <<"level-name", <<"Space-World">> >>,
          <<"level-seed", << >> >>,
          <<"default-player-permission-level", <<"member">> >>,
          <<"player-idle-timeout", <<"30">> >>,
          <<"view-distance", <<"12">> >>,
          <<"max-threads", <<"0">> >>,
          <<"server-authoritative-movement", <<"server-auth">> >>,
          <<"compression-threshold", <<"1">> >>,
          <<"content-log-file-enabled", <<"true">> >>,
          <<"debug-output", <<"true">> >> >>

\* configure_server: the lines written to server.properties, given whether
\* the file exists and its lines
configure_server(v, exists, lines) ==
  LET sc == server_config(v)
      existing_config == read_existing(v, lines, 1, << >>)
  IN  [i \in 1..Len(sc) |->
         <<sc[i][1], "=">> \o
           (IF exists /\ <<sc[i][1]>> \in DOMAIN existing_config
            THEN existing_config[<<sc[i][1]>>] ELSE sc[i][2])]

\* lines an existing file is made of: a custom value with optional
\* indentation or '#' and optional trailing white space, and other shapes
LineBodies ==
  {<<"gamemode", "=", "1", "=", "2">>, <<"gamemode", "=">>,
   <<"level-seed", "=", "creative">>, <<"gamemode", " ", "=", "creative">>,
   <<"gamemode">>, <<"motd", "=", "creative">>}
FileLines ==
  {pre \o <<"gamemode", "=", "creative">> \o post :
     pre \in {<< >>, <<" ">>, <<"#">>}, post \in {<< >>, <<" ">>}}
  \cup LineBodies
RECURSIVE FilesOfLen(_)
FilesOfLen(n) ==
  IF n = 0 THEN {<< >>}
  ELSE {Append(f, l) : f \in FilesOfLen(n - 1), l \in FileLines}
ExistingFiles == UNION {FilesOfLen(n) : n \in 0..MaxFileLines}

ConfigInputs ==
  [variant : Variants, exists : {TRUE}, lines : ExistingFiles]
  \cup [variant : Variants, exists : {FALSE}, lines : {<< >>}]

InitConfig ==
  /\ Idle
  /\ fin \in ConfigInputs
  /\ fout = {}

call_configure_server ==
  /\ fout = {}
  /\ fout' = {configure_server(fin.variant, fin.exists, fin.lines)}
  /\ UNCHANGED <<sessionVars, fin>>

NextConfig == call_configure_server

SpecConfig == InitConfig /\ [][NextConfig]_vars

(* ============ get_cloudflare_token, start_cloudflared_tunnel ========== *)
\* A token is a sequence of characters; an optional string is a set: {} is
\* Python's None, {t} the string t.
TokenChars == {"a", "b"}
RECURSIVE TokensOfLen(_)
TokensOfLen(n) ==
  IF n = 0 THEN {<< >>}
  ELSE {Append(t, c) : t \in TokensOfLen(n - 1), c \in TokenChars}
\* what os.getenv("CLOUDFLARED_TOKEN") can return
EnvTokens == {{}} \cup {{t} : t \in UNION {TokensOfLen(n) : n \in 0..MaxTokenLen}}
\* /workspaces/.codespaces/shared/environment-variables.json: missing, not
\* readable as JSON, or holding value under the key ('' without the key)
SharedFiles ==
  {[exists |-> FALSE, error |-> FALSE, value |-> << >>],
   [exists |-> TRUE, error |-> TRUE, value |-> << >>],
   [exists |-> TRUE, error |-> FALSE, value |-> << >>],
   [exists |-> TRUE, error |-> FALSE, value |-> <<"c">>]}
\* <data_dir>/cloudflare-token.txt: missing, unreadable, or its content
LocalFiles ==
  {[exists |-> FALSE, error |-> FALSE, content |-> << >>],
   [exists |-> TRUE, error |-> TRUE, content |-> << >>],
   [exists |-> TRUE, error |-> FALSE, content |-> <<" ">>],
   [exists |-> TRUE, error |-> FALSE, content |-> <<"l", " ">>],
   [exists |-> TRUE, error |-> FALSE, content |-> <<" ", "l", "l">>]}

\* not token
Falsy(t) == t = {} \/ t = {<< >>}

\* mutant of get_cloudflare_token: the local file read first
get_cloudflare_token_local_first(env, cs, shared, local) ==
  LET t1 == IF local.exists /\ ~local.error
            THEN {strip(local.content)} ELSE {}
      t2 == IF Falsy(t1) THEN env ELSE t1
  IN  IF Falsy(t2) /\ cs /\ shared.exists /\ ~shared.error
      THEN {shared.value} ELSE t2

\* get_cloudflare_token: the environment, then (in Codespaces) the shared
\* variables file, then the local file
get_cloudflare_token(env, cs, shared, local) ==
  LET t2 == IF Falsy(env) /\ cs /\ shared.exists /\ ~shared.error
            THEN {shared.value} ELSE env
  IN  IF Falsy(t2) /\ local.exists /\ ~local.error
      THEN {strip(local.content)} ELSE t2

Min(a, b) == IF a < b THEN a ELSE b
\* f"{token[:4]}...{token[-4:]}"
token_display(t) ==
  SubSeq(t, 1, Min(4, Len(t))) \o <<".", ".", ".">> \o
  SubSeq(t, Len(t) - Min(4, Len(t)) + 1, Len(t))

\* start_cloudflared_tunnel: without a token it returns False at once; else
\* it logs token_display and starts cloudflared (popen = FALSE: Popen raises)
start_cloudflared_tunnel(env, cs, shared, local, popen) ==
  LET tk == get_cloudflare_token(env, cs, shared, local)
  IN  IF Falsy(tk)
      THEN [token |-> tk, logged |-> {}, spawned |-> FALSE]
      ELSE [token |-> tk,
            logged |-> {token_display(CHOOSE t \in tk : TRUE)},
            spawned |-> popen]

TokenInputs ==
  [env : EnvTokens, cs : BOOLEAN, shared : SharedFiles, local : LocalFiles,
   popen : BOOLEAN]

InitToken ==
  /\ Idle
  /\ fin \in TokenInputs
  /\ fout = {}

call_start_cloudflared_tunnel ==
  /\ fout = {}
  /\ fout' = {start_cloudflared_tunnel(fin.env, fin.cs, fin.shared,
                                       fin.local, fin.popen)}
  /\ UNCHANGED <<sessionVars, fin>>

NextToken == call_start_cloudflared_tunnel

SpecToken == InitToken /\ [][NextToken]_vars

(* ========================== find_manual_zip ============================ *)
\* A file name is a sequence of pieces; ".zip" and ".ZIP" are extensions.
\* possible_names, in the order of the list (CONFIG["manual_zip_name"] is
\* "bedrock-server.zip", which the list names a second time)
possible_names ==
  << <<"bedrock", "-", "server", ".zip">>,
     <<"bedrock", "-", "server", ".zip">>,
     <<"bedrock", "_", "server", ".zip">>,
     <<"minecraft", "-", "server", ".zip">>,
     <<"server", ".zip">> >>
\* other files a directory may hold
OtherNames ==
  {<<"Bedrock", "-", "1.21", ".zip">>, <<"my", "SERVER", ".zip">>,
   <<"world", ".zip">>, <<"minecraft", ".txt">>}
FileNames == {possible_names[i] : i \in 1..Len(possible_names)} \cup OtherNames

\* str.lower() of a piece and of a name
lower_piece(x) ==
  IF x = "Bedrock" THEN "bedrock"
  ELSE IF x = "SERVER" THEN "server"
  ELSE IF x = ".ZIP" THEN ".zip"
  ELSE x
lower(n) == [i \in 1..Len(n) |-> lower_piece(n[i])]
\* search_path.glob("*.zip")
glob_zip(dir) == {n \in dir : n[Len(n)] = ".zip"}
\* any(keyword in zip_name_lower for keyword in [...])
has_keyword(n) ==
  \E i \in 1..Len(n) : lower(n)[i] \in {"bedrock", "server", "minecraft"}

\* first loop: search_paths in order, possible_names in order
RECURSIVE exact_search(_, _, _)
exact_search(paths, p, i) ==
  IF p > Len(paths) THEN {}
  ELSE IF i > Len(possible_names) THEN exact_search(paths, p + 1, 1)
  ELSE IF possible_names[i] \in paths[p].files
  THEN {[found |-> TRUE, dir |-> paths[p].label, name |-> possible_names[i]]}
  ELSE exact_search(paths, p, i + 1)

\* second loop: search_paths in order, glob("*.zip") in the order the file
\* system lists the directory, which is any order
RECURSIVE keyword_search(_, _)
keyword_search(paths, p) ==
  IF p > Len(paths) THEN {}
  ELSE LET hits == {n \in glob_zip(paths[p].files) : has_keyword(n)}
       IN  IF hits # {}
           THEN {[found |-> TRUE, dir |-> paths[p].label, name |-> n] :
                   n \in hits}
           ELSE keyword_search(paths, p + 1)

NotFound == [found |-> FALSE, dir |-> "", name |-> << >>]

\* mutant of find_manual_zip_in: the keyword search done first
find_manual_zip_keyword_first(cur, data) ==
  LET search_paths == << [label |-> ".", files |-> cur],
                         [label |-> "data_dir", files |-> data] >>
      k == keyword_search(search_paths, 1)
      e == exact_search(search_paths, 1, 1)
  IN  IF k # {} THEN k ELSE IF e # {} THEN e ELSE {NotFound}

\* find_manual_zip: what it may return, given the files of the current
\* directory and of the data directory
find_manual_zip_in(cur, data) ==
  LET search_paths == << [label |-> ".", files |-> cur],
                         [label |-> "data_dir", files |-> data] >>
      e == exact_search(search_paths, 1, 1)
      k == keyword_search(search_paths, 1)
  IN  IF e # {} THEN e ELSE IF k # {} THEN k ELSE {NotFound}

ZipInputs == [cur : SUBSET FileNames, data : SUBSET FileNames]

InitZip ==
  /\ Idle
  /\ fin \in ZipInputs
  /\ fout = {}

call_find_manual_zip ==
  /\ fout = {}
  /\ \E r \in find_manual_zip_in(fin.cur, fin.data) : fout' = {r}
  /\ UNCHANGED <<sessionVars, fin>>

NextZip == call_find_manual_zip

SpecZip == InitZip /\ [][NextZip]_vars

(* ============================== claims ================================= *)
AllProcs == 1..Len(procs)
Last(q) == q[Len(q)]

\* C1: when the launcher exits because of a signal, no child it spawned is
\* still running and the exit status is 0.
C1_TeardownOnSignal ==
  (pc = "exited" /\ exitCause = "signal") =>
    /\ \A p \in AllProcs : ~procs[p].alive
    /\ exitStatus = 0

C3_RetryThenFail ==
  \A r \in fout : r.reported => r.failed >= max_retries

\* the download from mirror i succeeds / yields an archive that is accepted
Succeeded(i) ==
  fin.dirOK /\ (fin.outs[i].requests = "ok" \/ fin.outs[i].urllib = "ok")
Accepted(i) == Succeeded(i) /\ fin.outs[i].size >= MinArchiveSize
UpTo(k) == [j \in 1..k |-> j]

\* C4: when the server is not installed, the download variant asks the
\* mirrors in list order up to and including the first one whose download
\* succeeds with at least 50 MiB and no later one; when no mirror is like
\* that it asks them all, returns False and extracts nothing.
C4_MultiMirror ==
  \A r \in fout :
    (fin.variant = "download" /\ ~fin.installed) =>
      IF \E i \in 1..NumMirrors : Accepted(i)
      THEN LET k == CHOOSE i \in 1..NumMirrors :
                      Accepted(i) /\ \A j \in 1..(i - 1) : ~Accepted(j)
           IN  r.contacted = UpTo(k) /\ ~r.reported
      ELSE /\ r.contacted = UpTo(NumMirrors)
           /\ r.result = FALSE
           /\ ~r.extracted
           /\ ~r.created
           /\ r.reported

\* C4 witness: every mirror was asked, the last one delivered an archive that
\* is too small, and the install returned False.
C4_Witness ==
  \E r \in fout :
    /\ fin.variant = "download" /\ ~fin.installed
    /\ Succeeded(NumMirrors) /\ fin.outs[NumMirrors].size < MinArchiveSize
    /\ r.contacted = UpTo(NumMirrors)
    /\ r.result = FALSE

\* C5: an archive is extracted only if it passed the variant's validation in
\* this call: the archive of the last mirror asked was downloaded with at
\* least 50 MiB (download), or the ZIP found is readable and has an entry
\* whose name contains 'bedrock_server' (manual).
C5_ValidationGatesExtraction ==
  \A r \in fout :
    r.extracted =>
      IF fin.variant = "download"
      THEN r.contacted # <<>> /\ Accepted(Last(r.contacted))
      ELSE \E a \in fin.zips :
             a.readable /\ \E f \in a.entries : ContainsBedrockServer(f)

\* C5 witness: an archive that passed validation was extracted, in an
\* install that then failed because the executable was not in it.
C5_Witness ==
  \E r \in fout : r.extracted /\ ~r.result /\ fin.io

\* the 'start server' action as the menu loop runs it
LaunchSequences ==
  {<<"install_failed">>,
   <<"install_ok", "configure", "tunnel", "spawn", "cleanup">>,
   <<"install_ok", "configure", "tunnel", "spawn_failed", "cleanup">>,
   <<"install_ok", "configure", "tunnel", "port_in_use", "cleanup">>}
IsPrefix(a, b) == Len(a) <= Len(b) /\ SubSeq(b, 1, Len(a)) = a

\* C6: the steps of a 'start server' action come in the order install,
\* configuration, tunnel setup, server spawn, cleanup; a server is spawned
\* only where the server is installed and the configuration is written, after
\* install returned True and configure_server and setup_tunnel ran in this
\* action; a failed install writes no configuration, starts no child and leads
\* back to the menu.
C6_LinearLaunch ==
  /\ [](\E q \in LaunchSequences : IsPrefix(trace, q))
  /\ [][(Len(procs') > Len(procs) /\ Last(procs').kind = "server") =>
          /\ trace = <<"install_ok", "configure", "tunnel">>
          /\ HasServer(DataLevel)
          /\ DataLevel \in cfgAt]_vars
  /\ [][(pc' = "install_error" /\ pc # "install_error") =>
          /\ trace' = <<"install_failed">>
          /\ UNCHANGED <<cfgAt, procs, server_process, tunnel_process>>]_vars
  /\ [][(pc = "install_error" /\ pc' # "install_error") =>
          (pc' \in {"menu", "cl_server"} /\
           UNCHANGED <<cfgAt, procs, server_process, tunnel_process>>)]_vars
  /\ [][(trace' # trace /\ Len(trace') > 0 /\
         Last(trace') \in {"install_ok", "install_failed"}) =>
          pc = "menu"]_vars

\* C6 witness: a whole launch, from install to cleanup, with a server spawned
C6_Witness ==
  trace = <<"install_ok", "configure", "tunnel", "spawn", "cleanup">>

\* C7: once a log_reader thread has ended and the server it was started for
\* has exited, every line that server wrote has been read and printed.
C7_NoLineDropped ==
  \A r \in 1..Len(readers) :
    (readers[r].pc = "done" /\ ~procs[readers[r].proc].alive) =>
      procs[readers[r].proc].consumed = procs[readers[r].proc].written

\* C8: at most one log_reader thread is alive, and a thread reads only the
\* pipe of the server it was started for.
C8_SingleReader ==
  /\ Cardinality({r \in 1..Len(readers) : readers[r].pc # "done"}) <= 1
  /\ \A r \in 1..Len(readers) :
       readers[r].pc = "read" => readers[r].on = readers[r].proc

\* C9: after a server run has ended, if worlds/ of the directory the server
\* ran in is not empty (and writing the archive met no error), a backup of it
\* lies under backups/ of that directory; and the backup step runs only when
\* the server has exited or was sent a signal.
C9_WorldBackup ==
  \A e \in runEnd :
    e.started =>
      /\ (e.worlds /\ e.io) => e.backup = e.ran
      /\ e.stopped

\* white space removed at both ends, said without recursion
Trimmed(l) ==
  LET ink == {i \in 1..Len(l) : l[i] # " "}
  IN  IF ink = {} THEN << >>
      ELSE SubSeq(l, CHOOSE i \in ink : \A j \in ink : i <= j,
                     CHOOSE i \in ink : \A j \in ink : i >= j)
\* the line sets key k: its text, trimmed, is k=value
SetsKey(l, k) ==
  Len(Trimmed(l)) >= 2 /\ Trimmed(l)[1] = k /\ Trimmed(l)[2] = "="
ValueIn(l) == SubSeq(Trimmed(l), 3, Len(Trimmed(l)))

\* C10: when server.properties exists, the file written has one line per key
\* of the default configuration, in its order; the line of a key the existing
\* file sets carries the value of the last line setting it, the line of any
\* other key carries the default.
C10_KeepsCustomSettings ==
  \A w \in fout :
    fin.exists =>
      LET sc == server_config(fin.variant)
      IN  /\ Len(w) = Len(sc)
          /\ \A i \in 1..Len(sc) :
               LET k == sc[i][1]
                   m == {j \in 1..Len(fin.lines) : SetsKey(fin.lines[j], k)}
               IN  w[i] = <<k, "=">> \o
                     (IF m = {} THEN sc[i][2]
                      ELSE ValueIn(fin.lines[CHOOSE j \in m :
                                               \A h \in m : h <= j]))

\* C10 witness: an existing file set gamemode to a value with '=' in it, and
\* the file was written.
C10_Witness ==
  /\ fout # {}
  /\ fin.exists
  /\ \E j \in 1..Len(fin.lines) :
       SetsKey(fin.lines[j], "gamemode") /\
       ValueIn(fin.lines[j]) = <<"1", "=", "2">>

\* C11: setup_tunnel is followed by start_server whatever it returned, and a
\* start_server reached after setup_tunnel returned False can spawn the
\* server; in Codespaces setup_tunnel spawns no child, returns True and sets
\* connection info of type 'codespaces'.
C11_TunnelOptional ==
  /\ [][(pc = "tunnel" /\ pc' # pc /\ signals' = signals) =>
          /\ pc' \in {"start", "access_a"}
          /\ pc' = "start" => tunnel_ret' \in {"True", "False"}
          /\ is_codespaces =>
               /\ procs' = procs
               /\ tunnel_process' = tunnel_process
               /\ tunnel_ret' = "True"
               /\ connection_info' = "codespaces"
               /\ pc' = "start"]_vars
  /\ [][(pc = "access_a" /\ pc' # pc /\ signals' = signals) =>
          pc' = "start"]_vars
  /\ [](pc = "start" /\ tunnel_ret = "False" /\ Len(procs) < MaxProcs =>
          ENABLED (start_server_step /\ Len(procs') > Len(procs)))

\* C11 witness: the tunnel process died during start-up, setup_tunnel
\* returned False and the server was spawned in the same action.
C11_Witness ==
  /\ pc = "serving"
  /\ tunnel_ret = "False"
  /\ trace = <<"install_ok", "configure", "tunnel", "spawn">>
  /\ tunnel_process # 0 /\ ~procs[tunnel_process].alive
  /\ procs[tunnel_process].sigs = <<>>

\* the steps of start_server and cleanup() as variant v takes them
LifecycleStep(v) ==
  \/ start_server_step_of(v)
  \/ server_wait
  \/ start_server_finally
  \/ cleanup_server
  \/ cleanup_server_wait
  \/ cleanup_tunnel
  \/ cleanup_tunnel_wait
LifecyclePcs == {"start", "serving", "finally", "cl_server",
                 "cl_server_wait", "cl_tunnel", "cl_tunnel_wait"}

C13_ValidationSufficient ==
  \A r \in fout :
    (/\ fin.variant = "manual"
     /\ ~fin.installed
     /\ fin.io
     /\ \E a \in fin.zips : validate_bedrock_zip(a)) =>
      r.result /\ r.created

\* C14: while bedrock_server lies in the data directory (space-data of the
\* directory the launcher was started in), the install step of every 'start
\* server' action returns True and extracts nothing, and every server is
\* launched from that directory.
C14_InstalledFoundAgain ==
  /\ [][(pc = "menu" /\ pc' \in {"configure", "install_error"} /\
         HasServer(1)) =>
          /\ pc' = "configure"
          /\ serverAt' = serverAt
          /\ dirAt' = dirAt]_vars
  /\ [](\A p \in AllProcs : procs[p].kind = "server" => procs[p].dir = 1)

\* C15: in the download variant the server a 'start server' action launches
\* is of the version CONFIG["version"] holds, whatever change_version set it
\* to and whatever was installed before.
C15_VersionTakesEffect ==
  [][(/\ variant = "download"
      /\ Len(procs') > Len(procs)
      /\ Last(procs').kind = "server") =>
       <<Last(procs').dir, version>> \in serverAt]_vars

\* C16: in the manual variant a 'reinstall server' action taken while
\* bedrock_server lies in the data directory (space-data of the directory
\* the launcher was started in) removes it, and the install step of the
\* next 'start server' action after a removal does not return True without
\* extracting.
C16_ReinstallForces ==
  /\ [][(/\ variant = "manual"
          /\ pc = "menu"
          /\ pc' = "menu"
          /\ reinstall_log' # None
          /\ (reinstall_log' # reinstall_log \/ serverAt' # serverAt)
          /\ HasServer(1)) =>
           (reinstall_log' = "removed" /\ \A x \in serverAt' : x[1] # 1)]_vars
  /\ [][(/\ pc = "menu"
          /\ pc' \in {"configure", "install_error"}
          /\ reinstall_log = "removed") =>
           ~(pc' = "configure" /\ serverAt' = serverAt)]_vars

\* C17: in the manual variant a start_server that finds the port in use
\* returns without a new process, without changing the working directory,
\* without setting running and without a backup, and goes on to cleanup();
\* when that cleanup() returns, the tunnel this action started is not running
\* any more.
C17_PortCheck ==
  /\ [][(pc = "start" /\ Len(trace') > Len(trace) /\
         Last(trace') = "port_in_use") =>
          /\ variant = "manual"
          /\ pc' = "cl_server"
          /\ UNCHANGED <<procs, server_process, cwd, running, readers,
                         backupsAt, runEnd>>]_vars
  /\ []((/\ pc = "cl_return"
          /\ Len(trace) >= 4
          /\ trace[4] = "port_in_use"
          /\ tunnel_ret = "True"
          /\ ~is_codespaces) =>
           (tunnel_process # 0 /\ ~procs[tunnel_process].alive))
  /\ [](("port_in_use" \in {trace[i] : i \in 1..Len(trace)}) => ~running)

\* C17 witness: the port was in use, and cleanup() has terminated the tunnel
\* that this action had started.
C17_Witness ==
  /\ pc = "cl_return"
  /\ trace = <<"install_ok", "configure", "tunnel", "port_in_use", "cleanup">>
  /\ tunnel_ret = "True"
  /\ tunnel_process # 0
  /\ procs[tunnel_process].sigs # <<>>
  /\ server_process = 0
  /\ cwd = 0

\* what a source of the token yields: {} or {<< >>} when it yields nothing
FromShared ==
  IF fin.cs /\ fin.shared.exists /\ ~fin.shared.error
  THEN {fin.shared.value} ELSE {}
FromLocal ==
  IF fin.local.exists /\ ~fin.local.error
  THEN {Trimmed(fin.local.content)} ELSE {}

\* C18: the token is the environment variable when that is not empty, else
\* (in Codespaces) the value of the shared variables file when that is not
\* empty, else the content of the local file; with no source it is empty and
\* no tunnel process is spawned.
C18_TokenPrecedence ==
  \A r \in fout :
    /\ IF ~Falsy(fin.env) THEN r.token = fin.env
       ELSE IF ~Falsy(FromShared) THEN r.token = FromShared
       ELSE IF ~Falsy(FromLocal) THEN r.token = FromLocal
       ELSE Falsy(r.token)
    /\ Falsy(r.token) => ~r.spawned

\* C18 witness: the environment variable is set but empty, the launcher runs
\* in Codespaces, the shared file and the local file both hold a token, and
\* the tunnel was started with the shared file's.
C18_Witness ==
  \E r \in fout :
    /\ fin.env = {<< >>}
    /\ ~Falsy(FromShared) /\ ~Falsy(FromLocal)
    /\ r.token = {<<"c">>}
    /\ r.spawned

\* C19: what is logged of a token is some of its first characters, at most
\* 4, then '...', then some of its last characters, at most 4, and together
\* they are fewer than the token has.
C19_TokenPartlyShown ==
  \A r \in fout :
    \A d \in r.logged :
      LET t == CHOOSE x \in r.token : TRUE
          n == Len(t)
      IN  \E k \in 0..4, m \in 0..4 :
            /\ k + m < n
            /\ d = SubSeq(t, 1, k) \o <<".", ".", ".">> \o
                   SubSeq(t, n - m + 1, n)

\* the five expected names, and the ZIP names with a keyword, written out
ExpectedIn(dir) ==
  {i \in 1..Len(possible_names) : possible_names[i] \in dir}
KeywordZips ==
  {<<"bedrock", "-", "server", ".zip">>, <<"bedrock", "_", "server", ".zip">>,
   <<"minecraft", "-", "server", ".zip">>, <<"server", ".zip">>,
   <<"Bedrock", "-", "1.21", ".zip">>, <<"my", "SERVER", ".zip">>}
FirstOf(is) == CHOOSE i \in is : \A j \in is : i <= j

\* C20: with a file of an expected name in the current directory the result
\* is the first such name of the list there; else with one in the data
\* directory, the first there; else a ZIP of one of the two directories whose
\* name holds a keyword, if there is one; else None.
C20_ZipLookupOrder ==
  \A r \in fout :
    IF ExpectedIn(fin.cur) # {}
    THEN r.found /\ r.dir = "." /\
         r.name = possible_names[FirstOf(ExpectedIn(fin.cur))]
    ELSE IF ExpectedIn(fin.data) # {}
    THEN r.found /\ r.dir = "data_dir" /\
         r.name = possible_names[FirstOf(ExpectedIn(fin.data))]
    ELSE IF (fin.cur \cup fin.data) \cap KeywordZips # {}
    THEN /\ r.found
         /\ r.name \in KeywordZips
         /\ \/ r.dir = "." /\ r.name \in fin.cur
            \/ r.dir = "data_dir" /\ r.name \in fin.data
    ELSE ~r.found

\* C20 witness: the current directory holds only a ZIP with a keyword in
\* capitals, the data directory holds two files of expected names, and the
\* one named earlier in the list was returned from the data directory.
C20_Witness ==
  \E r \in fout :
    /\ fin.cur = {<<"my", "SERVER", ".zip">>}
    /\ fin.data = {<<"server", ".zip">>, <<"bedrock", "_", "server", ".zip">>}
    /\ r.dir = "data_dir"
    /\ r.name = <<"bedrock", "_", "server", ".zip">>

=============================================================================
